---- MODULE Spec2Model ----
(***************************************************************************)
(* Verification model of starsoldier-bytecode: the instruction codec       *)
(* (src/src/op.rs), the assembler (src/src/asm.rs), the disassembler       *)
(* (src/src/disasm.rs) and the per-enemy interpreter                       *)
(* (src/src/interpret.rs).                                                 *)
(***************************************************************************)
EXTENDS Integers, Sequences, FiniteSets, TLC

(***************************************************************************)
(* Bounds of the model.                                                    *)
(***************************************************************************)
\* longest raw buffer handed to Op::decode on its own
MaxBufLen == 3
\* longest program handed to the disassembler
MaxProgLen == 3
\* longest free tail of an assembler source (lines after the filler)
MaxTail == 2
\* saturation of the loop-body execution counter (observer only)
MaxBodyCount == 258
\* saturation of the per-frame iteration counter (observer only)
MaxIters == 24
\* saturation of the counter of frames slept (observer only)
MaxSlept == 61

(***************************************************************************)
(* u8 arithmetic.                                                          *)
(***************************************************************************)
Byte == 0..255

wrapping_add(a, b) == (a + b) % 256

wrapping_sub(a, b) == (a - b + 256) % 256

RECURSIVE BitAndN(_, _, _)
BitAndN(a, b, n) ==
    IF n = 0 THEN 0
    ELSE (IF a % 2 = 1 /\ b % 2 = 1 THEN 1 ELSE 0)
         + 2 * BitAndN(a \div 2, b \div 2, n - 1)

BitAnd(a, b) == BitAndN(a, b, 8)

BitNot(a) == 255 - a

\* a | b for bytes
BitOr(a, b) == a + b - BitAnd(a, b)

(***************************************************************************)
(* Direction (src/src/direction.rs).  Direction::new asserts the range;    *)
(* a failed assertion is the value Panic.                                  *)
(***************************************************************************)
Panic == [t |-> "panic"]

DirectionNew(idx) == IF idx \in 0..63 THEN idx ELSE -1

(***************************************************************************)
(* Op constructors (src/src/op.rs).  Each returns the op, or Panic when    *)
(* one of its assertions fails.                                            *)
(***************************************************************************)
new_move(dir) == IF dir = -1 THEN Panic ELSE [t |-> "Move", dir |-> dir]

new_jump(addr) == [t |-> "Jump", addr |-> addr]

new_set_sleep_timer(idx) ==
    IF idx \in 0..15 THEN [t |-> "SetSleepTimer", idx |-> idx] ELSE Panic

new_loop_begin(idx) ==
    IF idx \in 0..15 /\ idx # 1 THEN [t |-> "LoopBegin", idx |-> idx] ELSE Panic

new_loop_end == [t |-> "LoopEnd"]

new_shoot_direction(dir) ==
    IF dir \in 0..15 THEN [t |-> "ShootDirection", dir |-> dir] ELSE Panic

new_set_sprite(idx) ==
    IF idx \in 0..15 THEN [t |-> "SetSprite", idx |-> idx] ELSE Panic

new_set_homing_timer(idx) ==
    IF idx \in 0..15 THEN [t |-> "SetHomingTimer", idx |-> idx] ELSE Panic

new_set_inversion(inv_x, inv_y) ==
    [t |-> "SetInversion", inv_x |-> inv_x, inv_y |-> inv_y]

new_set_position(x, y) == [t |-> "SetPosition", x |-> x, y |-> y]

new_set_jump_on_damage(addr) == [t |-> "SetJumpOnDamage", addr |-> addr]

new_increment_sprite == [t |-> "IncrementSprite"]

new_decrement_sprite == [t |-> "DecrementSprite"]

new_set_part(part) == [t |-> "SetPart", part |-> part]

new_randomize_x(mask) == [t |-> "RandomizeX", mask |-> mask]

new_randomize_y(mask) == [t |-> "RandomizeY", mask |-> mask]

new_bcc_x(addr) == [t |-> "BccX", addr |-> addr]

new_bcs_x(addr) == [t |-> "BcsX", addr |-> addr]

new_bcc_y(addr) == [t |-> "BccY", addr |-> addr]

new_bcs_y(addr) == [t |-> "BcsY", addr |-> addr]

new_shoot_aim(unused) ==
    IF unused \in 0..15 THEN [t |-> "ShootAim", unused |-> unused] ELSE Panic

new_change_music(music) ==
    IF music \in 0..15 THEN [t |-> "ChangeMusic", music |-> music] ELSE Panic

\* Op::SetHealth is named by the interpreter and the disassembler only.
SetHealthOp(health) == [t |-> "SetHealth", health |-> health]

OneByteTags == {"Move", "SetSleepTimer", "LoopBegin", "LoopEnd",
                "ShootDirection", "SetSprite", "SetHomingTimer",
                "SetInversion", "IncrementSprite", "DecrementSprite",
                "ShootAim", "ChangeMusic"}

BranchTags == {"Jump", "SetJumpOnDamage", "BccX", "BcsX", "BccY", "BcsY"}

\* Op::len
OpLen(op) ==
    IF op.t \in OneByteTags THEN 1
    ELSE IF op.t = "SetPosition" THEN 3
    ELSE 2

\* Op::addr_destination; -1 is None
addr_destination(op) == IF op.t \in BranchTags THEN op.addr ELSE -1

(***************************************************************************)
(* Op::decode.  The result is [ok |-> TRUE, op |-> ...] or                 *)
(* [ok |-> FALSE, err |-> "Incomplete" | "Undefined", opcode |-> ...].    *)
(***************************************************************************)
DecOk(op) == [ok |-> TRUE, op |-> op]

DecErr(kind, opcode) == [ok |-> FALSE, err |-> kind, opcode |-> opcode]

\* no decode result
NoDecode == [ok |-> FALSE, err |-> "none", opcode |-> -1]

\* the assertion of Op::decode failed
DecPanic == [ok |-> FALSE, err |-> "panic", opcode |-> -1]

\* ensure_buf_len!(n) followed by the constructor on the operand bytes
DecodeOperand1(buf, opcode, Ctor(_)) ==
    IF Len(buf) < 2 THEN DecErr("Incomplete", opcode) ELSE DecOk(Ctor(buf[2]))

\* decode with the set_inversion arm taking the whole 0x90..=0x9F row
DecodeNoUndefined(buf) ==
    LET opcode == buf[1] IN
    CASE buf = <<>> -> DecPanic
      [] opcode \in 0..63 -> DecOk(new_move(DirectionNew(opcode)))
      [] opcode = 64 -> DecodeOperand1(buf, opcode, new_jump)
      [] opcode \in 65..79 -> DecOk(new_set_sleep_timer(opcode % 16))
      [] opcode = 80 \/ opcode \in 82..95 ->
            DecOk(new_loop_begin(opcode % 16))
      [] opcode = 81 -> DecOk(new_loop_end)
      [] opcode \in 96..111 ->
            DecOk(new_shoot_direction(DirectionNew(opcode % 16)))
      [] opcode \in 112..127 -> DecOk(new_set_sprite(opcode % 16))
      [] opcode \in 128..143 -> DecOk(new_set_homing_timer(opcode % 16))
      [] opcode \in 144..159 ->
            DecOk(new_set_inversion(opcode % 2 = 1, (opcode \div 2) % 2 = 1))
      [] opcode = 160 ->
            IF Len(buf) < 3 THEN DecErr("Incomplete", opcode)
            ELSE DecOk(new_set_position(buf[2], buf[3]))
      [] opcode = 161 -> DecodeOperand1(buf, opcode, new_set_jump_on_damage)
      [] opcode = 162 -> DecOk(new_increment_sprite)
      [] opcode = 163 -> DecOk(new_decrement_sprite)
      [] opcode = 164 -> DecodeOperand1(buf, opcode, new_set_part)
      [] opcode = 165 -> DecodeOperand1(buf, opcode, new_randomize_x)
      [] opcode = 166 -> DecodeOperand1(buf, opcode, new_randomize_y)
      [] opcode = 176 -> DecodeOperand1(buf, opcode, new_bcc_x)
      [] opcode = 177 -> DecodeOperand1(buf, opcode, new_bcs_x)
      [] opcode = 178 -> DecodeOperand1(buf, opcode, new_bcc_y)
      [] opcode = 179 -> DecodeOperand1(buf, opcode, new_bcs_y)
      [] opcode \in 192..207 -> DecOk(new_shoot_aim(opcode % 16))
      [] opcode \in 240..255 -> DecOk(new_change_music(opcode % 16))
      [] OTHER -> DecErr("Undefined", opcode)

\* assert!(!buf.is_empty()) is the first arm
decode(buf) ==
    LET opcode == buf[1] IN
    CASE buf = <<>> -> DecPanic
      [] opcode \in 0..63 -> DecOk(new_move(DirectionNew(opcode)))
      [] opcode = 64 -> DecodeOperand1(buf, opcode, new_jump)
      [] opcode \in 65..79 -> DecOk(new_set_sleep_timer(opcode % 16))
      [] opcode = 80 \/ opcode \in 82..95 ->
            DecOk(new_loop_begin(opcode % 16))
      [] opcode = 81 -> DecOk(new_loop_end)
      [] opcode \in 96..111 ->
            DecOk(new_shoot_direction(DirectionNew(opcode % 16)))
      [] opcode \in 112..127 -> DecOk(new_set_sprite(opcode % 16))
      [] opcode \in 128..143 -> DecOk(new_set_homing_timer(opcode % 16))
      [] opcode \in 144..147 ->
            DecOk(new_set_inversion(opcode % 2 = 1, (opcode \div 2) % 2 = 1))
      [] opcode = 160 ->
            IF Len(buf) < 3 THEN DecErr("Incomplete", opcode)
            ELSE DecOk(new_set_position(buf[2], buf[3]))
      [] opcode = 161 -> DecodeOperand1(buf, opcode, new_set_jump_on_damage)
      [] opcode = 162 -> DecOk(new_increment_sprite)
      [] opcode = 163 -> DecOk(new_decrement_sprite)
      [] opcode = 164 -> DecodeOperand1(buf, opcode, new_set_part)
      [] opcode = 165 -> DecodeOperand1(buf, opcode, new_randomize_x)
      [] opcode = 166 -> DecodeOperand1(buf, opcode, new_randomize_y)
      [] opcode = 176 -> DecodeOperand1(buf, opcode, new_bcc_x)
      [] opcode = 177 -> DecodeOperand1(buf, opcode, new_bcs_x)
      [] opcode = 178 -> DecodeOperand1(buf, opcode, new_bcc_y)
      [] opcode = 179 -> DecodeOperand1(buf, opcode, new_bcs_y)
      [] opcode \in 192..207 -> DecOk(new_shoot_aim(opcode % 16))
      [] opcode \in 240..255 -> DecOk(new_change_music(opcode % 16))
      [] OTHER -> DecErr("Undefined", opcode)

(***************************************************************************)
(* Op::encode: the bytes written at the start of the buffer.               *)
(***************************************************************************)
u8_from(b) == IF b THEN 1 ELSE 0

encode(op) ==
    CASE op.t = "Move" -> <<op.dir>>
      [] op.t = "Jump" -> <<64, op.addr>>
      [] op.t = "SetSleepTimer" -> <<BitOr(64, op.idx)>>
      [] op.t = "LoopBegin" -> <<BitOr(80, op.idx)>>
      [] op.t = "LoopEnd" -> <<81>>
      [] op.t = "ShootDirection" -> <<BitOr(96, op.dir)>>
      [] op.t = "SetSprite" -> <<BitOr(112, op.idx)>>
      [] op.t = "SetHomingTimer" -> <<BitOr(128, op.idx)>>
      [] op.t = "SetInversion" ->
            <<BitOr(BitOr(144, u8_from(op.inv_x)), 2 * u8_from(op.inv_y))>>
      [] op.t = "SetPosition" -> <<160, op.x, op.y>>
      [] op.t = "SetJumpOnDamage" -> <<161, op.addr>>
      [] op.t = "IncrementSprite" -> <<162>>
      [] op.t = "DecrementSprite" -> <<163>>
      [] op.t = "SetPart" -> <<164, op.part>>
      [] op.t = "RandomizeX" -> <<165, op.mask>>
      [] op.t = "RandomizeY" -> <<166, op.mask>>
      [] op.t = "BccX" -> <<176, op.addr>>
      [] op.t = "BcsX" -> <<177, op.addr>>
      [] op.t = "BccY" -> <<178, op.addr>>
      [] op.t = "BcsY" -> <<179, op.addr>>
      [] op.t = "ShootAim" -> <<BitOr(192, op.unused)>>
      [] op.t = "ChangeMusic" -> <<BitOr(240, op.music)>>

(***************************************************************************)
(* Assembly text.  A source is a sequence of lines, a line a sequence of   *)
(* lexemes as the Logos lexer of src/src/asm.rs cuts them.  A number keeps *)
(* its radix and digits, so that printing and parsing are two conversions. *)
(***************************************************************************)
Mn(name) == [k |-> "mn", s |-> name]

LabelDefinition(name) == [k |-> "labeldef", s |-> name]

LabelReference(name) == [k |-> "labelref", s |-> name]

NumberLit(radix, digits) == [k |-> "num", radix |-> radix, digits |-> digits]

Comma == [k |-> "comma"]

RECURSIVE DigitsValue(_, _, _)
DigitsValue(radix, digits, acc) ==
    IF digits = <<>> THEN acc
    ELSE DigitsValue(radix, Tail(digits), acc * radix + Head(digits))

\* u8::from_str_radix in the Number callbacks; -1 when the value overflows
\* u8 (the lexer then yields Token::Error)
from_str_radix(tok) ==
    LET v == DigitsValue(tok.radix, tok.digits, 0) IN
    IF v <= 255 THEN v ELSE -1

RECURSIVE DecDigits(_)
DecDigits(v) ==
    IF v < 10 THEN <<v>> ELSE Append(DecDigits(v \div 10), v % 10)

\* format!("{}", v)
FmtDec(v) == NumberLit(10, DecDigits(v))

\* format!("{:#04X}", v)
FmtHex04(v) == NumberLit(16, <<v \div 16, v % 16>>)

HexDigit == <<"0", "1", "2", "3", "4", "5", "6", "7",
              "8", "9", "A", "B", "C", "D", "E", "F">>

\* format!("L{:02X}", addr_dst)
LabelName(a) == "L" \o HexDigit[(a \div 16) + 1] \o HexDigit[(a % 16) + 1]

(***************************************************************************)
(* disasm (src/src/disasm.rs).                                             *)
(***************************************************************************)
SubSeqFrom(buf, addr) == SubSeq(buf, addr + 1, Len(buf))

\* one turn of the scan loop of disasm, taken when the byte address a is
\* the address the loop stands at; acc is the error found so far (or
\* "none"), that address, stmts, addrs_opcode and the keys of addr_to_label
DisasmScanAt(buf, a, acc) ==
    IF acc.err # "none" \/ a # acc.addr THEN acc
    ELSE
      LET d == decode(SubSeqFrom(buf, a))
          addr_dst == addr_destination(d.op)
          inRange == addr_dst \in 0..(Len(buf) - 1)
      IN
      IF ~d.ok
      THEN [acc EXCEPT !.err = "Decode", !.source = d]
      ELSE IF addr_dst # -1 /\ ~inRange /\ d.op.t # "SetJumpOnDamage"
      THEN [acc EXCEPT !.err = "InvalidDestination", !.addr_dst = addr_dst]
      ELSE
        LET op == IF addr_dst # -1 /\ ~inRange
                  THEN SetHealthOp(addr_dst) ELSE d.op
        IN [acc EXCEPT
              !.labelled = IF addr_dst # -1 /\ inRange
                           THEN @ \cup {addr_dst} ELSE @,
              !.addrs_opcode = @ \cup {a},
              !.stmts = Append(@, [addr |-> a, op |-> op]),
              !.addr = a + OpLen(op)]

\* the scan loop over the byte addresses lo..hi, in order
RECURSIVE DisasmScan(_, _, _, _)
DisasmScan(buf, lo, hi, acc) ==
    IF lo > hi THEN acc
    ELSE IF lo = hi THEN DisasmScanAt(buf, lo, acc)
    ELSE LET mid == (lo + hi) \div 2
             left == DisasmScan(buf, lo, mid, acc)
         IN \* the ? operator returns at the first error
            IF left.err # "none" THEN left
            ELSE DisasmScan(buf, mid + 1, hi, left)

\* the mnemonic line of one statement
DisasmLine(op, addrs_opcode) ==
    CASE op.t = "Move" -> <<Mn("move"), FmtHex04(op.dir)>>
      [] op.t = "Jump" -> <<Mn("jump"), LabelReference(LabelName(op.addr))>>
      [] op.t = "SetSleepTimer" -> <<Mn("set_sleep_timer"), FmtDec(op.idx)>>
      [] op.t = "LoopBegin" -> <<Mn("loop_begin"), FmtDec(op.idx)>>
      [] op.t = "LoopEnd" -> <<Mn("loop_end")>>
      [] op.t = "ShootDirection" ->
            <<Mn("shoot_direction"), FmtHex04(op.dir)>>
      [] op.t = "SetSprite" -> <<Mn("set_sprite"), FmtDec(op.idx)>>
      [] op.t = "SetHomingTimer" -> <<Mn("set_homing_timer"), FmtDec(op.idx)>>
      [] op.t = "SetInversion" ->
            <<Mn("set_inversion"), FmtDec(u8_from(op.inv_x)), Comma,
              FmtDec(u8_from(op.inv_y))>>
      [] op.t = "SetPosition" ->
            <<Mn("set_position"), FmtDec(op.x), Comma, FmtDec(op.y)>>
      [] op.t = "SetJumpOnDamage" ->
            IF op.addr \in addrs_opcode
            THEN <<Mn("set_jump_on_damage"),
                   LabelReference(LabelName(op.addr))>>
            ELSE <<Mn("set_health"), FmtDec(op.addr)>>
      [] op.t = "SetHealth" -> <<Mn("set_health"), FmtDec(op.health)>>
      [] op.t = "IncrementSprite" -> <<Mn("increment_sprite")>>
      [] op.t = "DecrementSprite" -> <<Mn("decrement_sprite")>>
      [] op.t = "SetPart" -> <<Mn("set_part"), FmtDec(op.part)>>
      [] op.t = "RandomizeX" -> <<Mn("randomize_x"), FmtHex04(op.mask)>>
      [] op.t = "RandomizeY" -> <<Mn("randomize_y"), FmtHex04(op.mask)>>
      [] op.t = "BccX" -> <<Mn("bcc_x"), LabelReference(LabelName(op.addr))>>
      [] op.t = "BcsX" -> <<Mn("bcs_x"), LabelReference(LabelName(op.addr))>>
      [] op.t = "BccY" -> <<Mn("bcc_y"), LabelReference(LabelName(op.addr))>>
      [] op.t = "BcsY" -> <<Mn("bcs_y"), LabelReference(LabelName(op.addr))>>
      [] op.t = "ShootAim" -> <<Mn("shoot_aim"), FmtDec(op.unused)>>
      [] op.t = "ChangeMusic" -> <<Mn("change_music"), FmtDec(op.music)>>

\* the lines printed for one statement
DisasmStmt(stmt, addrs_opcode, labelled) ==
    (IF stmt.addr \in labelled
     THEN << <<LabelDefinition(LabelName(stmt.addr))>> >> ELSE <<>>)
    \o << DisasmLine(stmt.op, addrs_opcode) >>

\* the emission pass over the statements lo..hi
RECURSIVE DisasmEmit(_, _, _, _, _)
DisasmEmit(stmts, lo, hi, addrs_opcode, labelled) ==
    IF lo > hi THEN <<>>
    ELSE IF lo = hi THEN DisasmStmt(stmts[lo], addrs_opcode, labelled)
    ELSE LET mid == (lo + hi) \div 2 IN
         DisasmEmit(stmts, lo, mid, addrs_opcode, labelled)
         \o DisasmEmit(stmts, mid + 1, hi, addrs_opcode, labelled)

disasm(buf) ==
    LET sc == DisasmScan(buf, 0, Len(buf) - 1,
                         [err |-> "none", addr |-> 0, stmts |-> <<>>,
                          addrs_opcode |-> {}, labelled |-> {},
                          source |-> NoDecode, addr_dst |-> -1])
    IN
    IF sc.err # "none"
    THEN [kind |-> "err", err |-> sc.err, addr |-> sc.addr,
          source |-> sc.source, addr_dst |-> sc.addr_dst]
    ELSE [kind |-> "ok",
          text |-> DisasmEmit(sc.stmts, 1, Len(sc.stmts), sc.addrs_opcode,
                              sc.labelled)]

(***************************************************************************)
(* asm (src/src/asm.rs).  The unset_jump_on_damage mnemonic calls          *)
(* Op::new_unset_jump_on_damage, which src/src/op.rs does not define; the  *)
(* sources of the model do not use it.                                     *)
(***************************************************************************)
NoLabel == ""

\* Statement::new / Statement::with_label
Statement(lineno, addr, op, label) ==
    [lineno |-> lineno, addr |-> addr, op |-> op, label |-> label]

\* expect_number on the i-th lexeme of the line; -1 is the Parse error
expect_number(line, i) ==
    IF Len(line) >= i /\ line[i].k = "num" THEN from_str_radix(line[i]) ELSE -1

\* expect_nibble
expect_nibble(line, i) ==
    LET idx == expect_number(line, i) IN IF idx \in 0..15 THEN idx ELSE -1

\* expect_dir
expect_dir(line, i) ==
    LET idx == expect_number(line, i) IN IF idx \in 0..63 THEN idx ELSE -1

\* expect_dir_shoot
expect_dir_shoot(line, i) ==
    LET idx == expect_number(line, i) IN IF idx \in 0..15 THEN idx ELSE -1

\* expect_loop_idx
expect_loop_idx(line, i) ==
    LET idx == expect_number(line, i) IN
    IF idx \in 0..15 /\ idx # 1 THEN idx ELSE -1

\* expect_bool; the value is 0 or 1, -1 is the Parse error
expect_bool(line, i) ==
    LET n == expect_number(line, i) IN IF n \in 0..1 THEN n ELSE -1

\* expect_comma succeeds
expect_comma(line, i) == Len(line) >= i /\ line[i].k = "comma"

\* expect_label_reference succeeds
expect_label_reference(line, i) == Len(line) >= i /\ line[i].k = "labelref"

\* expect_end succeeds when i - 1 lexemes were consumed
expect_end(line, i) == Len(line) < i

ParseFail == [t |-> "parse_error"]

\* the op of a mnemonic line (placeholder operand for a label reference),
\* or ParseFail
ParseMnemonic(line) ==
    LET m == line[1].s
        n2 == expect_number(line, 2)
        OneNum(v, op) == IF v # -1 /\ expect_end(line, 3) THEN op ELSE ParseFail
        NoOperand(op) == IF expect_end(line, 2) THEN op ELSE ParseFail
        WithLabel(op) ==
            IF expect_label_reference(line, 2) /\ expect_end(line, 3)
            THEN op ELSE ParseFail
    IN
    CASE m = "move" ->
            OneNum(expect_dir(line, 2), new_move(DirectionNew(n2)))
      [] m = "jump" -> WithLabel(new_jump(0))
      [] m = "set_sleep_timer" ->
            OneNum(expect_nibble(line, 2), new_set_sleep_timer(n2))
      [] m = "loop_begin" ->
            OneNum(expect_loop_idx(line, 2), new_loop_begin(n2))
      [] m = "loop_end" -> NoOperand(new_loop_end)
      [] m = "shoot_direction" ->
            OneNum(expect_dir_shoot(line, 2),
                   new_shoot_direction(DirectionNew(n2)))
      [] m = "set_sprite" -> OneNum(expect_nibble(line, 2), new_set_sprite(n2))
      [] m = "set_homing_timer" ->
            OneNum(expect_nibble(line, 2), new_set_homing_timer(n2))
      [] m = "set_inversion" ->
            IF /\ expect_bool(line, 2) # -1
               /\ expect_comma(line, 3)
               /\ expect_bool(line, 4) # -1
               /\ expect_end(line, 5)
            THEN new_set_inversion(expect_bool(line, 2) # 0,
                                   expect_bool(line, 4) # 0)
            ELSE ParseFail
      [] m = "set_position" ->
            IF /\ n2 # -1
               /\ expect_comma(line, 3)
               /\ expect_number(line, 4) # -1
               /\ expect_end(line, 5)
            THEN new_set_position(n2, expect_number(line, 4))
            ELSE ParseFail
      [] m = "set_jump_on_damage" -> WithLabel(new_set_jump_on_damage(255))
      [] m = "set_health" -> OneNum(n2, new_set_jump_on_damage(n2))
      [] m = "increment_sprite" -> NoOperand(new_increment_sprite)
      [] m = "decrement_sprite" -> NoOperand(new_decrement_sprite)
      [] m = "set_part" -> OneNum(n2, new_set_part(n2))
      [] m = "randomize_x" -> OneNum(n2, new_randomize_x(n2))
      [] m = "randomize_y" -> OneNum(n2, new_randomize_y(n2))
      [] m = "bcc_x" -> WithLabel(new_bcc_x(0))
      [] m = "bcs_x" -> WithLabel(new_bcs_x(0))
      [] m = "bcc_y" -> WithLabel(new_bcc_y(0))
      [] m = "bcs_y" -> WithLabel(new_bcs_y(0))
      [] m = "shoot_aim" -> OneNum(expect_nibble(line, 2), new_shoot_aim(n2))
      [] m = "change_music" ->
            OneNum(expect_nibble(line, 2), new_change_music(n2))
      [] OTHER -> ParseFail

\* HashMap::insert
MapInsert(map, key, val) ==
    [n \in (DOMAIN map) \cup {key} |-> IF n = key THEN val ELSE map[n]]

\* parse_line on a non-empty line; st is (addr, stmts, labels)
parse_line(lineno, line, st) ==
    IF line[1].k = "labeldef"
    THEN IF ~expect_end(line, 2) THEN [err |-> "Parse", st |-> st]
         \* the label address must fit u8: try_from(addr).unwrap()
         ELSE IF st.addr > 255 THEN [err |-> "panic", st |-> st]
         ELSE [err |-> "none",
               st |-> [st EXCEPT !.labels = MapInsert(@, line[1].s, st.addr)]]
    ELSE IF line[1].k = "mn"
    THEN LET op == ParseMnemonic(line) IN
         IF op = ParseFail THEN [err |-> "Parse", st |-> st]
         ELSE LET label == IF op.t \in BranchTags /\ Len(line) >= 2
                              /\ line[2].k = "labelref"
                           THEN line[2].s ELSE NoLabel
              IN [err |-> "none",
                  st |-> [st EXCEPT
                            !.stmts = Append(@, Statement(lineno, st.addr,
                                                          op, label)),
                            !.addr = @ + OpLen(op)]]
    ELSE [err |-> "Parse", st |-> st]

\* one turn of the loop over the lines in asm; acc is the error found so
\* far (or "none") and (addr, stmts, labels)
AsmLine(lines, i, acc) ==
    IF acc.err # "none" THEN acc
    \* trim_comment(&line).trim().is_empty()
    ELSE IF lines[i] = <<>> THEN acc
    ELSE LET r == parse_line(i, lines[i], acc.st) IN
         IF r.err # "none" THEN [err |-> r.err, lineno |-> i, st |-> acc.st]
         ELSE IF r.st.addr > 256
         THEN [err |-> "Overflow", lineno |-> i, st |-> acc.st]
         ELSE [err |-> "none", lineno |-> 0, st |-> r.st]

\* the loop over the lines lo..hi, in order (split in halves to keep the
\* evaluation shallow)
RECURSIVE AsmPass1(_, _, _, _)
AsmPass1(lines, lo, hi, acc) ==
    IF lo > hi THEN acc
    ELSE IF lo = hi THEN AsmLine(lines, lo, acc)
    ELSE LET mid == (lo + hi) \div 2
             left == AsmPass1(lines, lo, mid, acc)
         IN \* the ? operator returns at the first error
            IF left.err # "none" THEN left
            ELSE AsmPass1(lines, mid + 1, hi, left)

\* one turn of the loop of resolve_labels; acc is the error found so far
\* (or "none") and the statements
ResolveStmt(i, label_to_addr, acc) ==
    LET stmt == acc.stmts[i] IN
    IF acc.err # "none" \/ stmt.label = NoLabel THEN acc
    ELSE IF stmt.label \notin DOMAIN label_to_addr
    THEN [err |-> "UndefinedLabel", lineno |-> stmt.lineno,
          stmts |-> acc.stmts]
    ELSE
      LET addr == label_to_addr[stmt.label] IN
      IF stmt.op.t = "SetJumpOnDamage" /\ addr = 0
      THEN [err |-> "SetJumpOnDamageZero", lineno |-> stmt.lineno,
            stmts |-> acc.stmts]
      ELSE [acc EXCEPT !.stmts[i] = [@ EXCEPT !.op = [@ EXCEPT !.addr = addr],
                                              !.label = NoLabel]]

\* resolve_labels over the statements lo..hi, in order
RECURSIVE resolve_labels(_, _, _, _)
resolve_labels(lo, hi, label_to_addr, acc) ==
    IF lo > hi THEN acc
    ELSE IF lo = hi THEN ResolveStmt(lo, label_to_addr, acc)
    ELSE LET mid == (lo + hi) \div 2
             left == resolve_labels(lo, mid, label_to_addr, acc)
         IN \* the ? operator returns at the first error
            IF left.err # "none" THEN left
            ELSE resolve_labels(mid + 1, hi, label_to_addr, left)

\* emit_code over the statements lo..hi: the bytes written, in order
RECURSIVE emit_code(_, _, _)
emit_code(stmts, lo, hi) ==
    IF lo > hi THEN <<>>
    ELSE IF lo = hi THEN encode(stmts[lo].op)
    ELSE LET mid == (lo + hi) \div 2 IN
         emit_code(stmts, lo, mid) \o emit_code(stmts, mid + 1, hi)

AsmErr(r) == [kind |-> "err", err |-> r.err, lineno |-> r.lineno]

asm(lines) ==
    LET p1 == AsmPass1(lines, 1, Len(lines),
                       [err |-> "none", lineno |-> 0,
                        st |-> [addr |-> 0, stmts |-> <<>>, labels |-> <<>>]])
    IN
    IF p1.err = "panic" THEN [kind |-> "panic"]
    ELSE IF p1.err # "none" THEN AsmErr(p1)
    ELSE LET r == resolve_labels(1, Len(p1.st.stmts), p1.st.labels,
                                 [err |-> "none", lineno |-> 0,
                                  stmts |-> p1.st.stmts])
         IN
         IF r.err # "none" THEN AsmErr(r)
         \* vec![0_u8; addr] filled by emit_code
         ELSE [kind |-> "ok", bytes |-> emit_code(r.stmts, 1, Len(r.stmts))]

(***************************************************************************)
(* Interpreter (src/src/interpret.rs).                                     *)
(*                                                                         *)
(* Direction::displacement_object is todo!() in src/src/direction.rs and   *)
(* Direction::aim is not defined there: the displacement of a move or of a *)
(* homing step is an input of the frame, drawn from Displacements.         *)
(***************************************************************************)
\* InterpreterInit::init; the rank assertion is the caller's obligation
init(cfg) ==
    [program |-> cfg.program, pc |-> cfg.pc,
     boss |-> cfg.boss, difficulty |-> cfg.difficulty,
     shot_with_rank |-> cfg.shot_with_rank,
     accel_shot_with_rank |-> cfg.accel_shot_with_rank,
     homing_shot_with_rank |-> cfg.homing_shot_with_rank,
     extra_act_with_rank |-> cfg.extra_act_with_rank,
     accel_with_rank |-> cfg.accel_with_rank,
     rank |-> cfg.rank,
     state |-> "Alive", x |-> cfg.x, y |-> cfg.y,
     inv_x |-> FALSE, inv_y |-> FALSE,
     health |-> 0, sprite_idx |-> 0, part |-> 0,
     sleep_timer |-> 0, homing_timer |-> 0,
     loop_start_addr |-> cfg.pc, loop_counter |-> 0, jump_on_damage |-> 0]

\* `v as u8` for an i8
AsU8(v) == (v + 256) % 256

CLIP_Y_MIN == 239

\* clip asking for the re-action before it looks at y
clip_react_first(s, do_try_extra_act, stage) ==
    IF do_try_extra_act /\ stage >= s.difficulty /\ s.rank >= 4
    THEN [it |-> s, flag |-> FALSE, extra |-> TRUE]
    ELSE IF s.y >= CLIP_Y_MIN
    THEN [it |-> [s EXCEPT !.state = "Leaving"], flag |-> do_try_extra_act,
          extra |-> FALSE]
    ELSE [it |-> s, flag |-> do_try_extra_act, extra |-> FALSE]

\* Interpreter::clip: the interpreter, the flag and the returned bool
clip(s, do_try_extra_act, stage) ==
    IF s.y >= CLIP_Y_MIN
    THEN [it |-> [s EXCEPT !.state = "Leaving"], flag |-> do_try_extra_act,
          extra |-> FALSE]
    ELSE IF do_try_extra_act /\ stage >= s.difficulty /\ s.rank >= 4
    THEN [it |-> s, flag |-> FALSE, extra |-> TRUE]
    ELSE [it |-> s, flag |-> do_try_extra_act, extra |-> FALSE]

\* cond_shoot_aim holding the shot back up to rank 4
cond_shoot_aim_le4(s) == ~(s.shot_with_rank /\ s.rank <= 4)

\* Interpreter::cond_shoot_aim
cond_shoot_aim(s) == ~(s.shot_with_rank /\ s.rank < 4)

\* Interpreter::shoot_aim_param
shoot_aim_param(s, is_second_round) ==
    IF s.homing_shot_with_rank /\ is_second_round /\ s.rank = 7
    THEN <<0, TRUE>>
    ELSE IF s.accel_shot_with_rank
    THEN <<BitAnd((s.rank * 8) % 256, 48), FALSE>>
    ELSE <<0, FALSE>>

\* Interpreter::cond_accel1
cond_accel1(s, stage) ==
    s.accel_with_rank /\ stage >= s.difficulty /\ s.rank \in 4..6

\* Interpreter::cond_accel2
cond_accel2(s, stage) ==
    s.accel_with_rank /\ stage >= s.difficulty /\ s.rank = 7

\* Interpreter::fetch: a panic (slice index out of range, or the assertion
\* of Op::decode on an empty slice), a Decode error, or the op with pc
\* advanced
fetch_no_advance(s) ==
    IF s.pc >= Len(s.program) THEN [kind |-> "panic"]
    ELSE
      LET d == decode(SubSeqFrom(s.program, s.pc)) IN
      IF ~d.ok THEN [kind |-> "err", addr |-> s.pc, source |-> d]
      ELSE
        LET op == IF s.boss /\ d.op.t = "SetJumpOnDamage"
                  THEN SetHealthOp(d.op.addr) ELSE d.op
        IN [kind |-> "ok", op |-> op, it |-> s]

fetch(s) ==
    IF s.pc >= Len(s.program) THEN [kind |-> "panic"]
    ELSE
      LET d == decode(SubSeqFrom(s.program, s.pc)) IN
      IF ~d.ok THEN [kind |-> "err", addr |-> s.pc, source |-> d]
      ELSE
        LET op == IF s.boss /\ d.op.t = "SetJumpOnDamage"
                  THEN SetHealthOp(d.op.addr) ELSE d.op
        IN [kind |-> "ok", op |-> op, it |-> [s EXCEPT !.pc = @ + OpLen(op)]]

(***************************************************************************)
(* The arms of the match in Interpreter::step.  s is the interpreter after *)
(* fetch (pc already advanced).                                            *)
(***************************************************************************)
\* the speed upgrade applied to the directions up to 0x2F
MoveDirWide(s, dir, stage) ==
    IF dir \in 0..47
    THEN IF cond_accel1(s, stage) THEN DirectionNew(dir + 16)
         ELSE IF cond_accel2(s, stage) THEN DirectionNew(dir + 32)
         ELSE dir
    ELSE dir

\* the effective direction of Op::Move; -1 when Direction::new asserts
MoveDir(s, dir, stage) ==
    IF dir \in 0..31
    THEN IF cond_accel1(s, stage) THEN DirectionNew(dir + 16)
         ELSE IF cond_accel2(s, stage) THEN DirectionNew(dir + 32)
         ELSE dir
    ELSE dir

\* the displacement of Op::Move applied to the position
MoveBy(s, dx, dy) ==
    LET dx2 == IF s.inv_x THEN -dx ELSE dx
        dy2 == IF s.inv_y THEN -dy ELSE dy
    IN [s EXCEPT !.x = wrapping_add(@, AsU8(dx2)),
                 !.y = wrapping_add(@, AsU8(dy2))]

\* the homing step applied to the interpreter
HomingBy(s, dx, dy) ==
    [s EXCEPT !.homing_timer = @ - 1,
              !.x = wrapping_add(@, AsU8(dx)),
              !.y = wrapping_add(@, AsU8(dy))]

ExecJump(s, addr) == [s EXCEPT !.pc = addr]

\* set_sleep_timer loading its operand as it is
ExecSetSleepTimerRaw(s, idx) == [s EXCEPT !.sleep_timer = idx]

ExecSetSleepTimer(s, idx) == [s EXCEPT !.sleep_timer = 4 * idx]

ExecLoopBeginOr1(s, idx) ==
    [s EXCEPT !.loop_start_addr = s.pc, !.loop_counter = BitOr(idx, 1)]

ExecLoopBegin(s, idx) ==
    [s EXCEPT !.loop_start_addr = s.pc, !.loop_counter = idx]

ExecLoopEndNoWrap(s) ==
    LET c == IF s.loop_counter = 0 THEN 0 ELSE s.loop_counter - 1 IN
    [s EXCEPT !.loop_counter = c,
              !.pc = IF c > 0 THEN s.loop_start_addr ELSE @]

ExecLoopEnd(s) ==
    LET c == wrapping_sub(s.loop_counter, 1) IN
    [s EXCEPT !.loop_counter = c,
              !.pc = IF c > 0 THEN s.loop_start_addr ELSE @]

ExecSetSprite(s, idx) == [s EXCEPT !.sprite_idx = idx]

ExecSetHomingTimer(s, idx) ==
    [s EXCEPT !.homing_timer = IF idx = 0 THEN 252 ELSE 4 * idx]

ExecSetInversion(s, inv_x, inv_y) ==
    [s EXCEPT !.inv_x = inv_x, !.inv_y = inv_y]

ExecSetPosition(s, x, y) == [s EXCEPT !.x = x, !.y = y]

ExecSetJumpOnDamage(s, addr) == [s EXCEPT !.jump_on_damage = addr]

ExecSetHealthAndJump(s, health) ==
    [s EXCEPT !.health = health, !.jump_on_damage = health]

ExecSetHealth(s, health) == [s EXCEPT !.health = health]

ExecSetPart(s, part) == [s EXCEPT !.part = part]

ExecRandomizeX(s, mask, rand) ==
    [s EXCEPT !.x = BitOr(BitAnd(@, BitNot(mask)), BitAnd(rand, mask))]

ExecRandomizeY(s, mask, rand) ==
    [s EXCEPT !.y = BitOr(BitAnd(@, BitNot(mask)), BitAnd(rand, mask))]

\* a taken or untaken conditional branch
ExecBranch(s, taken, addr) == IF taken THEN [s EXCEPT !.pc = addr] ELSE s

\* the result of one iteration of the loop of step: the interpreter, the
\* two flags, how the iteration ends ("continue", "ok", "err", "panic") and
\* what it did
IterResult(s, homing, extra, out, ev) ==
    [it |-> s, do_try_homing |-> homing, do_try_extra_act |-> extra,
     out |-> out, ev |-> ev]

NoShot == <<>>

Event(act, at, op, dir, shot) ==
    [act |-> act, at |-> at, op |-> op, dir |-> dir, shot |-> shot]

\* the match on the fetched op; at is the address it was fetched from, h
\* the values the host and the displacement table return in this iteration
ExecOp(op, at, s, extra, h) ==
    LET Go(s2, out) ==
            IterResult(s2, FALSE, extra, out, Event("exec", at, op, -1, NoShot))
        Abort == Go(s, "panic")
    IN
    CASE op.t = "Move" ->
            LET dir == MoveDir(s, op.dir, h.stage) IN
            IF dir = -1 THEN Abort
            ELSE LET c == clip(MoveBy(s, h.disp[1], h.disp[2]), extra, h.stage)
                 IN IterResult(c.it, FALSE, c.flag,
                               IF c.extra THEN "continue" ELSE "ok",
                               Event("exec", at, op, dir, NoShot))
      [] op.t = "Jump" -> Go(ExecJump(s, op.addr), "continue")
      [] op.t = "SetSleepTimer" -> Go(ExecSetSleepTimer(s, op.idx), "ok")
      [] op.t = "LoopBegin" -> Go(ExecLoopBegin(s, op.idx), "continue")
      [] op.t = "LoopEnd" -> Go(ExecLoopEnd(s), "continue")
      \* todo!()
      [] op.t = "ShootDirection" -> Abort
      [] op.t = "SetSprite" -> Go(ExecSetSprite(s, op.idx), "continue")
      [] op.t = "SetHomingTimer" ->
            IterResult(ExecSetHomingTimer(s, op.idx), TRUE, extra, "continue",
                       Event("exec", at, op, -1, NoShot))
      [] op.t = "SetInversion" ->
            Go(ExecSetInversion(s, op.inv_x, op.inv_y), "continue")
      [] op.t = "SetPosition" -> Go(ExecSetPosition(s, op.x, op.y), "continue")
      [] op.t = "SetJumpOnDamage" ->
            \* assert!(!self.boss)
            IF s.boss THEN Abort ELSE Go(ExecSetJumpOnDamage(s, op.addr), "ok")
      [] op.t = "SetHealth" ->
            \* assert!(self.boss)
            IF ~s.boss THEN Abort ELSE Go(ExecSetHealth(s, op.health), "ok")
      [] op.t = "IncrementSprite" ->
            \* self.sprite_idx += 1: panics with overflow checks, else wraps
            IF s.sprite_idx = 255 /\ h.overflow_checks THEN Abort
            ELSE Go([s EXCEPT !.sprite_idx = wrapping_add(@, 1)], "continue")
      [] op.t = "DecrementSprite" ->
            IF s.sprite_idx = 0 /\ h.overflow_checks THEN Abort
            ELSE Go([s EXCEPT !.sprite_idx = wrapping_sub(@, 1)], "continue")
      [] op.t = "SetPart" -> Go(ExecSetPart(s, op.part), "continue")
      [] op.t = "RandomizeX" -> Go(ExecRandomizeX(s, op.mask, h.rand), "continue")
      [] op.t = "RandomizeY" -> Go(ExecRandomizeY(s, op.mask, h.rand), "continue")
      [] op.t = "BccX" -> Go(ExecBranch(s, s.x < h.hero_x, op.addr), "continue")
      [] op.t = "BcsX" -> Go(ExecBranch(s, s.x >= h.hero_x, op.addr), "continue")
      [] op.t = "BccY" -> Go(ExecBranch(s, s.y < h.hero_y, op.addr), "continue")
      [] op.t = "BcsY" -> Go(ExecBranch(s, s.y >= h.hero_y, op.addr), "continue")
      [] op.t = "ShootAim" ->
            IF ~cond_shoot_aim(s) THEN Go(s, "continue")
            ELSE LET p == shoot_aim_param(s, h.is_second_round) IN
                 IterResult(s, FALSE, extra, "continue",
                            Event("exec", at, op, -1, <<s.x, s.y, p[1], p[2]>>))
      \* the host's audio hook (RestoreMusic / PlaySound in step)
      [] op.t = "ChangeMusic" -> Go(s, "continue")

\* one iteration of the loop of Interpreter::step
LoopIter(s, homing, extra, h) ==
    IF homing /\ s.homing_timer > 0
    THEN LET c == clip(HomingBy(s, h.disp[1], h.disp[2]), extra, h.stage) IN
         IterResult(c.it, homing, c.flag,
                    IF c.extra THEN "continue" ELSE "ok",
                    Event("homing", s.pc, Panic, -1, NoShot))
    ELSE LET f == fetch(s) IN
         IF f.kind = "panic"
         THEN IterResult(s, FALSE, extra, "panic",
                         Event("fetch", s.pc, Panic, -1, NoShot))
         ELSE IF f.kind = "err"
         THEN IterResult(s, FALSE, extra, "err",
                         Event("fetch", s.pc, Panic, -1, NoShot))
         ELSE ExecOp(f.op, s.pc, f.it, extra, h)

\* Interpreter::damage on an Alive interpreter
damage_no_jump(s) ==
    IF s.boss
    THEN IF s.health = 0 THEN [s EXCEPT !.state = "Dying"]
         ELSE [s EXCEPT !.health = @ - 1]
    ELSE [s EXCEPT !.state = "Dying"]

damage(s) ==
    IF s.boss
    THEN IF s.health = 0 THEN [s EXCEPT !.state = "Dying"]
         ELSE [s EXCEPT !.health = @ - 1]
    ELSE IF s.jump_on_damage = 0 THEN [s EXCEPT !.state = "Dying"]
         ELSE [s EXCEPT !.pc = s.jump_on_damage]

(***************************************************************************)
(* State.                                                                  *)
(*   tool, op_in, code, dec, text, result : the codec, disasm, asm runs    *)
(*   it    : the Interpreter struct                                        *)
(*   call  : the public call in progress or last returned                  *)
(*   frame : the locals of step (do_try_homing, do_try_extra_act) and     *)
(*           observers of the running frame: iters, back, the numbers of  *)
(*           homing steps (since the frame began or was re-armed by a     *)
(*           set_homing_timer), of displacements and of re-actions, and   *)
(*           the stage the host answered at the latest displacement       *)
(*   obs   : observers of the loop frame, of the boss's hits and of the    *)
(*           frames slept since the latest set_sleep_timer, and what the   *)
(*           host answered when shoot_aim_param asked is_second_round      *)
(*   last  : what the latest action did                                    *)
(***************************************************************************)
VARIABLES tool, op_in, code, dec, text, result, it, call, frame, obs, last

toolVars == <<tool, op_in, code, dec, text, result>>

interpVars == <<it, call, frame, obs, last>>

vars == <<tool, op_in, code, dec, text, result, it, call, frame, obs, last>>

NoText == [kind |-> "none"]

NoOut == [kind |-> "none"]

Call(name, status, addr) == [name |-> name, status |-> status, addr |-> addr]

Frame(homing, extra, iters, back) ==
    [do_try_homing |-> homing, do_try_extra_act |-> extra, iters |-> iters,
     back |-> back, homings |-> 0, disps |-> 0, reacts |-> 0, stage |-> 0]

NoObs == [in_loop |-> FALSE, loop_n |-> 0, body_count |-> 0, clean |-> FALSE,
          done |-> FALSE, hits |-> 0, h0 |-> 0, overflow_checks |-> FALSE,
          sleep_n |-> 0, sleep_next |-> 0, slept |-> 0, sleep_clean |-> FALSE,
          second |-> FALSE]

NoEvent == Event("none", -1, Panic, -1, NoShot)

\* the interpreter's variables while a tool runs
InterpIdle ==
    /\ it = [state |-> "none"]
    /\ call = Call("none", "ok", -1)
    /\ frame = Frame(FALSE, FALSE, 0, FALSE)
    /\ obs = NoObs
    /\ last = NoEvent

\* the tools' variables while the interpreter runs
ToolIdle ==
    /\ tool = "interp"
    /\ op_in = Panic
    /\ code = <<>>
    /\ dec = NoDecode
    /\ text = NoText
    /\ result = NoOut

(***************************************************************************)
(* The codec run: an op built by a constructor is encoded and the bytes    *)
(* decoded; or a raw buffer is decoded.                                    *)
(***************************************************************************)
\* operand bytes tried for the two-operand constructor
OperandSamples == {0, 1, 127, 128, 255}

\* the ops the constructors build, over every operand their assertions admit
ConstructableOps ==
    {new_move(DirectionNew(d)) : d \in 0..63}
    \cup {new_jump(a) : a \in Byte}
    \cup {new_set_sleep_timer(i) : i \in 0..15}
    \cup {new_loop_begin(i) : i \in (0..15) \ {1}}
    \cup {new_loop_end}
    \cup {new_shoot_direction(DirectionNew(d)) : d \in 0..15}
    \cup {new_set_sprite(i) : i \in 0..15}
    \cup {new_set_homing_timer(i) : i \in 0..15}
    \cup {new_set_inversion(a, b) : a \in BOOLEAN, b \in BOOLEAN}
    \cup {new_set_position(x, y) : x \in OperandSamples, y \in OperandSamples}
    \cup {new_set_jump_on_damage(a) : a \in Byte}
    \cup {new_increment_sprite, new_decrement_sprite}
    \cup {new_set_part(a) : a \in Byte}
    \cup {new_randomize_x(a) : a \in Byte}
    \cup {new_randomize_y(a) : a \in Byte}
    \cup {new_bcc_x(a) : a \in Byte}
    \cup {new_bcs_x(a) : a \in Byte}
    \cup {new_bcc_y(a) : a \in Byte}
    \cup {new_bcs_y(a) : a \in Byte}
    \cup {new_shoot_aim(i) : i \in 0..15}
    \cup {new_change_music(i) : i \in 0..15}

\* bytes that follow the opcode in a raw buffer
TailBytes == {0, 255}

RECURSIVE SeqsUpTo(_, _)
SeqsUpTo(S, n) ==
    IF n = 0 THEN {<<>>}
    ELSE LET shorter == SeqsUpTo(S, n - 1) IN
         shorter \cup {Append(q, b) : q \in {r \in shorter : Len(r) = n - 1},
                                      b \in S}

RawBufs == {<<b>> \o q : b \in Byte, q \in SeqsUpTo(TailBytes, MaxBufLen - 1)}

InitOp ==
    /\ InterpIdle
    /\ dec = NoDecode
    /\ text = NoText
    /\ result = NoOut
    /\ \/ /\ tool = "constructed"
          /\ op_in \in ConstructableOps
          /\ code = <<>>
       \/ /\ tool = "raw"
          /\ op_in = Panic
          /\ code \in RawBufs

\* op.encode(&mut buf) on a buffer of op.len() bytes
EncodeOp ==
    /\ tool = "constructed"
    /\ code' = encode(op_in)
    /\ tool' = "encoded"
    /\ UNCHANGED <<op_in, dec, text, result>>
    /\ UNCHANGED interpVars

\* Op::decode(&buf)
DecodeBuf ==
    /\ tool \in {"encoded", "raw"}
    /\ dec' = decode(code)
    /\ tool' = IF tool = "raw" THEN "decoded_raw" ELSE "decoded"
    /\ UNCHANGED <<op_in, code, text, result>>
    /\ UNCHANGED interpVars

NextOp == EncodeOp \/ DecodeBuf

SpecOp == InitOp /\ [][NextOp]_vars

(***************************************************************************)
(* Claims about the codec (checked under SpecOp).                          *)
(***************************************************************************)
\* C2: for every op a constructor builds, decoding the bytes encode wrote
\* gives back an equal op, the bytes are op.len() many, and no shorter
\* prefix of them decodes.
C2_EncodeDecodeInverse ==
    tool = "decoded" =>
        /\ dec = DecOk(op_in)
        /\ Len(code) = OpLen(op_in)
        /\ \A k \in 1..(Len(code) - 1) : ~decode(SubSeq(code, 1, k)).ok

\* first bytes outside the opcode map, as the claim lists them
UndefinedOpcodes == (148..159) \cup (167..175) \cup (180..191) \cup (208..239)

\* the length of the instruction a first byte announces, as the claim lists
\* the multi-byte opcodes
AnnouncedLen(b) ==
    IF b = 160 THEN 3
    ELSE IF b \in {64, 161, 164, 165, 166, 176, 177, 178, 179} THEN 2
    ELSE 1

\* C3: decode answers Undefined{opcode} exactly for the first bytes outside
\* the opcode map, Incomplete{opcode} exactly for a multi-byte opcode on a
\* buffer shorter than its instruction, and an op in every other case.
C3_DecodeKinds ==
    tool \in {"decoded", "decoded_raw"} =>
        LET b == code[1]
            undefined == ~dec.ok /\ dec.err = "Undefined" /\ dec.opcode = b
            incomplete == ~dec.ok /\ dec.err = "Incomplete" /\ dec.opcode = b
        IN /\ undefined <=> b \in UndefinedOpcodes
           /\ incomplete <=> (b \notin UndefinedOpcodes
                              /\ Len(code) < AnnouncedLen(b))
           /\ (~undefined /\ ~incomplete) => (dec.ok /\ dec.op # Panic)

\* a set_position opcode followed by one byte only was answered Incomplete
C3_Witness ==
    /\ tool = "decoded_raw"
    /\ Len(code) = 2
    /\ dec = DecErr("Incomplete", 160)

(***************************************************************************)
(* The disassembler / assembler run: a program is disassembled and the     *)
(* text assembled again (src/src/bin/roundtrip.rs); or a source is         *)
(* assembled.                                                              *)
(***************************************************************************)
\* bytes of the programs handed to disasm: moves (also small operands),
\* jump, set_sleep_timer, loop_end, loop_begin, set_position, 0xA1,
\* increment_sprite, bcc_x and an undefined opcode
ProgramBytes == {0, 1, 2, 3, 64, 65, 81, 82, 148, 160, 161, 162, 176}

DisasmInputs == SeqsUpTo(ProgramBytes, MaxProgLen) \ {<<>>}

\* lines of the sources handed to asm
LineSetPosition ==
    <<Mn("set_position"), NumberLit(10, <<2, 2, 4>>), Comma,
      NumberLit(16, <<1, 0>>)>>

SourceLines ==
    { <<>>,
      <<Mn("move"), NumberLit(16, <<2, 10>>)>>,
      <<Mn("jump"), LabelReference("A")>>,
      <<LabelDefinition("A")>>,
      LineSetPosition,
      <<Mn("set_jump_on_damage"), LabelReference("A")>>,
      <<Mn("set_health"), NumberLit(10, <<0>>)>>,
      <<LabelDefinition("B")>>,
      <<Mn("bcs_y"), LabelReference("B")>>,
      <<Mn("move"), NumberLit(10, <<6, 4>>)>>,
      <<Mn("loop_begin"), NumberLit(2, <<1>>)>>,
      <<Mn("set_part"), NumberLit(10, <<2, 5, 6>>)>> }

\* numbers of set_position lines (3 bytes each) that open a source
FillCounts == {0, 84, 85}

Filler(n) == [i \in 1..n |-> LineSetPosition]

\* lines that open a source before the set_position lines: none, a
\* set_health line (2 bytes), or a label at address 0 with a
\* set_jump_on_damage that refers to it
Heads ==
    { <<>>,
      << <<Mn("set_health"), NumberLit(10, <<2, 5, 5>>)>> >>,
      << <<LabelDefinition("A")>>,
         <<Mn("set_jump_on_damage"), LabelReference("A")>> >> }

\* the sources of one line `set_health h`, h written in decimal
HealthSources == {<< <<Mn("set_health"), FmtDec(h)>> >> : h \in Byte}

AsmInputs ==
    {h \o Filler(n) \o t :
        h \in Heads, n \in FillCounts, t \in SeqsUpTo(SourceLines, MaxTail)}
    \cup HealthSources

InitAsm ==
    /\ InterpIdle
    /\ op_in = Panic
    /\ dec = NoDecode
    /\ result = NoOut
    /\ \/ /\ tool = "program"
          /\ code \in DisasmInputs
          /\ text = NoText
       \/ /\ tool = "source"
          /\ code = <<>>
          /\ text \in {[kind |-> "ok", text |-> src] : src \in AsmInputs}

\* bytecode::disasm(&mut assembly, &buf_orig)
Disassemble ==
    /\ tool = "program"
    /\ text' = disasm(code)
    /\ tool' = "disassembled"
    /\ UNCHANGED <<op_in, code, dec, result>>
    /\ UNCHANGED interpVars

\* bytecode::asm(assembly.as_slice()), on the text of a successful disasm
\* or on a source
Assemble ==
    /\ tool \in {"disassembled", "source"}
    /\ text.kind = "ok"
    /\ result' = asm(text.text)
    /\ tool' = IF tool = "source" THEN "assembled_source" ELSE "reassembled"
    /\ UNCHANGED <<op_in, code, dec, text>>
    /\ UNCHANGED interpVars

NextAsm == Disassemble \/ Assemble

SpecAsm == InitAsm /\ [][NextAsm]_vars

(***************************************************************************)
(* Claims about disasm and asm (checked under SpecAsm).                    *)
(***************************************************************************)
\* the program decodes linearly from addr without a decode error and every
\* branch operand is less than its length
RECURSIVE DecodesLinearly(_, _)
DecodesLinearly(P, addr) ==
    IF addr >= Len(P) THEN addr = Len(P)
    ELSE LET d == decode(SubSeqFrom(P, addr)) IN
         /\ d.ok
         /\ addr_destination(d.op) # -1 => addr_destination(d.op) < Len(P)
         /\ DecodesLinearly(P, addr + OpLen(d.op))

\* C1: a program that decodes linearly, with every branch operand inside
\* the program, is disassembled without an error, and assembling the text
\* succeeds and gives the program back.
C1_RoundTrip ==
    DecodesLinearly(code, 0) =>
        /\ tool = "disassembled" => text.kind = "ok"
        /\ tool = "reassembled" => (result.kind = "ok" /\ result.bytes = code)

\* number of code bytes a well-formed line of SourceLines emits
LineCodeLen(line) ==
    IF line = <<>> \/ line[1].k = "labeldef" THEN 0
    ELSE IF line[1].s = "set_position" THEN 3
    ELSE IF line[1].s \in {"jump", "set_jump_on_damage", "set_health",
                            "set_part", "bcs_y"} THEN 2
    ELSE 1

\* the lines of SourceLines that asm must reject on their own
IllFormedLines ==
    { <<Mn("move"), NumberLit(10, <<6, 4>>)>>,
      <<Mn("loop_begin"), NumberLit(2, <<1>>)>>,
      <<Mn("set_part"), NumberLit(10, <<2, 5, 6>>)>> }

RECURSIVE CodeLenRange(_, _, _)
CodeLenRange(src, lo, hi) ==
    IF lo > hi THEN 0
    ELSE IF lo = hi THEN LineCodeLen(src[lo])
    ELSE LET mid == (lo + hi) \div 2 IN
         CodeLenRange(src, lo, mid) + CodeLenRange(src, mid + 1, hi)

\* the code length after the first n lines
CodeLenUpTo(src, n) == CodeLenRange(src, 1, n)

\* the first n lines are well formed
WellFormedUpTo(src, n) == \A i \in 1..n : src[i] \notin IllFormedLines

\* some line takes the code length over 256 and no line up to it is ill
\* formed
Overflows(src) ==
    \E n \in 1..Len(src) : CodeLenUpTo(src, n) > 256 /\ WellFormedUpTo(src, n)

\* every line is well formed, every label referenced is defined, and no
\* set_jump_on_damage refers to a label at address 0
LegalSource(src) ==
    /\ WellFormedUpTo(src, Len(src))
    /\ \A i \in 1..Len(src) :
         (Len(src[i]) >= 2 /\ src[i][2].k = "labelref") =>
             /\ \E j \in 1..Len(src) : src[j] = <<LabelDefinition(src[i][2].s)>>
             /\ src[i][1].s = "set_jump_on_damage" =>
                  \A j \in 1..Len(src) :
                      (src[j] = <<LabelDefinition(src[i][2].s)>>
                       /\ \A k \in (j + 1)..Len(src) : src[k] # src[j])
                      => CodeLenUpTo(src, j) # 0

\* C10: asm answers Overflow for a source whose code grows past 256 bytes,
\* and returns the bytes for every legal source of at most 256 bytes,
\* wherever its labels are defined.
C10_OverflowBound ==
    tool = "assembled_source" =>
        /\ Overflows(text.text) =>
              (result.kind = "err" /\ result.err = "Overflow")
        /\ (LegalSource(text.text)
            /\ CodeLenUpTo(text.text, Len(text.text)) <= 256) =>
              (result.kind = "ok"
               /\ Len(result.bytes) = CodeLenUpTo(text.text, Len(text.text)))

\* the lines of src that carry a label operand
RefLines(src) ==
    {i \in 1..Len(src) : Len(src[i]) >= 2 /\ src[i][2].k = "labelref"}

\* the lines of src that define the label name
DefLines(src, name) ==
    {j \in 1..Len(src) : src[j] = <<LabelDefinition(name)>>}

\* the code addresses at which src defines the label name
DefinedAt(src, name) == {CodeLenUpTo(src, j) : j \in DefLines(src, name)}

\* the address the label of line i is looked up to: that of its last
\* definition
LabelAddr(src, i) ==
    LET defs == DefLines(src, src[i][2].s)
        j == CHOOSE d \in defs : \A e \in defs : e <= d
    IN  CodeLenUpTo(src, j)

\* line i is a set_jump_on_damage whose label stands at address 0
JumpOnDamageToZero(src, i) ==
    /\ i \in RefLines(src)
    /\ src[i][1].s = "set_jump_on_damage"
    /\ DefLines(src, src[i][2].s) # {}
    /\ LabelAddr(src, i) = 0

\* line i refers to a label that src defines nowhere
RefersToUndefined(src, i) ==
    i \in RefLines(src) /\ DefLines(src, src[i][2].s) = {}

\* every line is well formed and the code stays within 256 bytes
ParsableSource(src) ==
    /\ WellFormedUpTo(src, Len(src))
    /\ CodeLenUpTo(src, Len(src)) <= 256

\* C11: in an accepted source the operand byte of every statement with a
\* label is an address at which the source defines that label, whether the
\* definition stands before or after the statement; and a parsable source
\* whose first statement that cannot be resolved refers to a label defined
\* nowhere is answered UndefinedLabel, without bytes.
C11_LabelResolution ==
    tool = "assembled_source" =>
        LET src == text.text IN
        /\ result.kind = "ok" =>
              \A i \in RefLines(src) :
                  result.bytes[CodeLenUpTo(src, i)]
                      \in DefinedAt(src, src[i][2].s)
        /\ (/\ ParsableSource(src)
            /\ \E i \in RefLines(src) :
                  /\ RefersToUndefined(src, i)
                  /\ \A k \in 1..(i - 1) : ~JumpOnDamageToZero(src, k))
           => (result.kind = "err" /\ result.err = "UndefinedLabel")

\* C12: a parsable source whose first statement that cannot be resolved
\* is a set_jump_on_damage with its label at address 0 is answered
\* SetJumpOnDamageZero; in an accepted source no set_jump_on_damage
\* statement is emitted as 0xA1 0x00; and `set_health h` is accepted for
\* every h in 0..=255 and emitted as 0xA1 h.
C12_JumpOnDamageZero ==
    tool = "assembled_source" =>
        LET src == text.text IN
        /\ (/\ ParsableSource(src)
            /\ \E i \in RefLines(src) :
                  /\ JumpOnDamageToZero(src, i)
                  /\ \A k \in 1..(i - 1) : ~RefersToUndefined(src, k))
           => (result.kind = "err" /\ result.err = "SetJumpOnDamageZero")
        /\ result.kind = "ok" =>
              \A i \in RefLines(src) :
                  src[i][1].s = "set_jump_on_damage" =>
                      /\ result.bytes[CodeLenUpTo(src, i) - 1] = 161
                      /\ result.bytes[CodeLenUpTo(src, i)] # 0
        /\ \A h \in Byte :
              src = << <<Mn("set_health"), FmtDec(h)>> >> =>
                  (result.kind = "ok" /\ result.bytes = <<161, h>>)

\* line j defines a label that an earlier line of src defines already
Redefines(src, j) ==
    /\ Len(src[j]) = 1
    /\ src[j][1].k = "labeldef"
    /\ \E e \in 1..(j - 1) : src[e] = src[j]

\* C13: a source that defines a label a second time, with every line up to
\* the second definition well formed and at most 256 bytes of code before
\* it, is rejected with a parse error; and in an accepted source the
\* operand of every statement with a label is the address of the first
\* definition of that label.
C13_UniqueLabels ==
    tool = "assembled_source" =>
        LET src == text.text IN
        /\ (\E j \in 1..Len(src) :
               /\ Redefines(src, j)
               /\ WellFormedUpTo(src, j)
               /\ CodeLenUpTo(src, j) <= 256)
           => (result.kind = "err" /\ result.err = "Parse")
        /\ result.kind = "ok" =>
              \A i \in RefLines(src) :
                  LET defs == DefLines(src, src[i][2].s)
                      first == CHOOSE d \in defs : \A e \in defs : d <= e
                  IN  result.bytes[CodeLenUpTo(src, i)]
                          = CodeLenUpTo(src, first)

\* the addresses the linear scan of P visits from address a on (the last
\* one may fail to decode)
RECURSIVE InstrAddrs(_, _)
InstrAddrs(P, a) ==
    IF a >= Len(P) THEN {}
    ELSE LET d == decode(SubSeqFrom(P, a)) IN
         IF d.ok THEN {a} \cup InstrAddrs(P, a + OpLen(d.op)) ELSE {a}

\* the branch operand of the instruction at address a of P, or -1
DestAt(P, a) ==
    LET d == decode(SubSeqFrom(P, a)) IN
    IF d.ok THEN addr_destination(d.op) ELSE -1

\* the scan stops at address a: the instruction does not decode, or it is a
\* jump or a bcc/bcs whose operand is not less than the length of P
ScanFault(P, a) ==
    \/ ~decode(SubSeqFrom(P, a)).ok
    \/ DestAt(P, a) >= Len(P) /\ P[a + 1] # 161

\* some instruction of the scan has address b as its operand
Labelled(P, b) == \E c \in InstrAddrs(P, 0) : DestAt(P, c) = b

\* the number of the output line that prints the instruction at address a
InstrLine(P, a) ==
    LET before == {b \in InstrAddrs(P, 0) : b < a} IN
    Cardinality(before) + Cardinality({b \in before : Labelled(P, b)})
        + (IF Labelled(P, a) THEN 2 ELSE 1)

\* C14: a jump or bcc/bcs whose operand t is not less than the length of
\* the program makes disasm fail with InvalidDestination (when the scan
\* gets that far); in the text of a successful disasm an 0xA1 instruction
\* is printed `set_jump_on_damage L<t>` when t is an instruction boundary
\* of the scan and `set_health t` otherwise (also when t is not less than
\* the length); and every label used as an operand is defined by a label
\* line of the text.
C14_BranchTargets ==
    tool = "disassembled" =>
        LET P == code
            A == InstrAddrs(P, 0)
        IN
        /\ \A a \in A :
              (/\ \A b \in A : b < a => ~ScanFault(P, b)
               /\ DestAt(P, a) >= Len(P)
               /\ P[a + 1] # 161)
              => /\ text.kind = "err"
                 /\ text.err = "InvalidDestination"
                 /\ text.addr = a
                 /\ text.addr_dst = DestAt(P, a)
        /\ text.kind = "ok" =>
              /\ \A a \in A :
                    P[a + 1] = 161 =>
                        text.text[InstrLine(P, a)] =
                            IF DestAt(P, a) \in A
                            THEN <<Mn("set_jump_on_damage"),
                                   LabelReference(LabelName(DestAt(P, a)))>>
                            ELSE <<Mn("set_health"), FmtDec(DestAt(P, a))>>
              /\ \A i \in 1..Len(text.text) :
                    (Len(text.text[i]) >= 2
                     /\ text.text[i][2].k = "labelref")
                    => \E j \in 1..Len(text.text) :
                          text.text[j]
                              = <<LabelDefinition(text.text[i][2].s)>>

(***************************************************************************)
(* The interpreter run: init, then any sequence of step and damage calls.  *)
(* A call of step that enters the loop is followed by one StepIter per     *)
(* iteration of the loop; damage is only called between two calls of step  *)
(* (the struct is borrowed mutably for the whole call).                    *)
(***************************************************************************)
\* set_jump_on_damage L02 (set_health 2 for a boss); L02: loop_begin 3;
\* move 4; loop_end; set_sleep_timer 1; jump L02
Prog1 == <<161, 2, 83, 4, 81, 65, 64, 2>>

\* loop_begin 0; set_sprite 0; loop_end; set_sleep_timer 2; change_music 3;
\* move 4 (and the program ends there)
Prog2 == <<80, 112, 81, 66, 243, 4>>

\* bcc_x L05; set_position 224, 200; L05: loop_begin 2; move 0x24; loop_end;
\* shoot_aim 0; set_homing_timer 2; move 0x1A; jump L05
Prog3 == <<176, 5, 160, 224, 200, 82, 36, 81, 192, 130, 26, 64, 5>>

\* L00: set_sprite 0; jump L00
Prog4 == <<112, 64, 0>>

\* decrement_sprite; increment_sprite; set_inversion 1, 0; randomize_x 0x0F;
\* randomize_y 0xF0; set_part 7; bcs_y L0C; move 4; L0C: shoot_direction 0;
\* then the undefined opcode 0x94 and a set_jump_on_damage cut short
Prog5 == <<163, 162, 145, 165, 15, 166, 240, 164, 7, 179, 12, 4, 96, 148, 161>>

\* loop_begin 15; move 4; loop_end; set_sleep_timer 3
Prog6 == <<95, 4, 81, 67>>

\* set_position 120, 2; set_inversion 0, 1; move 4
Prog7 == <<160, 120, 2, 146, 4>>

\* jump to address 9 of a program of two bytes
Prog8 == <<64, 9>>

\* set_position 120, 240; move 4
Prog9 == <<160, 120, 240, 4>>

\* the programs with the values of pc they are started at
StartPoints ==
    { <<Prog1, 0>>, <<Prog1, 2>>, <<Prog2, 0>>, <<Prog3, 0>>, <<Prog4, 0>>,
      <<Prog5, 0>>, <<Prog5, 13>>, <<Prog5, 14>>, <<Prog6, 0>>, <<Prog7, 0>>,
      <<Prog8, 0>>, <<Prog9, 0>> }

Ranks == {3, 4, 7}

\* InterpreterInit values
Configs ==
    { [program |-> sp[1], pc |-> sp[2], boss |-> b, difficulty |-> 2,
       shot_with_rank |-> f, accel_shot_with_rank |-> f,
       homing_shot_with_rank |-> f, extra_act_with_rank |-> f,
       accel_with_rank |-> f, rank |-> r, x |-> 120, y |-> 224] :
      sp \in StartPoints, b \in BOOLEAN, f \in BOOLEAN, r \in Ranks }

\* (dx, dy) of Direction::displacement_object for the direction moved in
Displacements == { <<0, 4>>, <<4, 4>> }

\* what the Game and the displacement table answer in one iteration of the
\* loop of step, in a build with or without overflow checks
Observations(checks) ==
    [stage : {1, 2}, hero_x : {0, 200}, hero_y : {120}, rand : {0, 255},
     is_second_round : BOOLEAN, disp : Displacements,
     overflow_checks : {checks}]

Init ==
    /\ ToolIdle
    /\ \E cfg \in Configs : it = init(cfg)
    /\ call = Call("init", "ok", -1)
    /\ frame = Frame(FALSE, FALSE, 0, FALSE)
    /\ \E checks \in BOOLEAN : obs = [NoObs EXCEPT !.overflow_checks = checks]
    /\ last = NoEvent

\* the ops that assign pc
TransferTags == {"Jump", "LoopEnd", "BccX", "BcsX", "BccY", "BcsY"}

\* the iteration transferred control to the address of its op or before it
Backward(r) ==
    /\ r.ev.act = "exec"
    /\ r.ev.op.t \in TransferTags
    /\ r.it.pc <= r.ev.at

\* the iteration applied a homing or a move displacement and called clip
Displaced(r) ==
    /\ r.out # "panic"
    /\ \/ r.ev.act = "homing"
       \/ r.ev.act = "exec" /\ r.ev.op.t = "Move"

\* clip answered true: the loop goes on after the displacement
Reacted(r) == Displaced(r) /\ r.out = "continue"

\* the observers of the frame after an iteration in which the host
\* answered stage
FrameAfterIter(f, r, stage) ==
    [do_try_homing |-> r.do_try_homing,
     do_try_extra_act |-> r.do_try_extra_act,
     iters |-> IF f.iters < MaxIters THEN f.iters + 1 ELSE f.iters,
     back |-> f.back \/ Backward(r),
     homings |-> IF r.ev.act = "homing" /\ f.homings < MaxIters
                 THEN f.homings + 1
                 ELSE IF r.ev.act = "exec" /\ r.ev.op.t = "SetHomingTimer"
                 THEN 0 ELSE f.homings,
     disps |-> IF Displaced(r) /\ f.disps < MaxIters
               THEN f.disps + 1 ELSE f.disps,
     reacts |-> IF Reacted(r) /\ f.reacts < MaxIters
                THEN f.reacts + 1 ELSE f.reacts,
     stage |-> IF Displaced(r) THEN stage ELSE f.stage]

\* the observers of the sleep after an iteration: a set_sleep_timer opens
\* a count of the frames slept, any other iteration closes it
SleepAfterIter(o, r) ==
    IF r.ev.act = "exec" /\ r.out # "panic" /\ r.ev.op.t = "SetSleepTimer"
    THEN [o EXCEPT !.sleep_n = r.ev.op.idx, !.sleep_next = r.it.pc,
                   !.slept = 0, !.sleep_clean = TRUE]
    ELSE [o EXCEPT !.sleep_n = 0, !.sleep_next = 0, !.slept = 0,
                   !.sleep_clean = FALSE]

\* the observers of the loop frame and of the hits after an iteration
LoopObsAfterIter(o, r) ==
    IF r.ev.act # "exec" \/ r.out = "panic" THEN o
    ELSE CASE r.ev.op.t = "LoopBegin" ->
                [o EXCEPT !.in_loop = TRUE, !.loop_n = r.ev.op.idx,
                          !.body_count = 0, !.clean = TRUE, !.done = FALSE]
           [] r.ev.op.t = "LoopEnd" /\ o.in_loop ->
                [o EXCEPT !.body_count = IF @ < MaxBodyCount THEN @ + 1 ELSE @,
                          !.in_loop = r.it.loop_counter > 0,
                          !.done = o.clean /\ r.it.loop_counter = 0]
           [] r.ev.op.t \in TransferTags \ {"LoopEnd"}
              /\ r.it.pc = r.ev.op.addr ->
                [o EXCEPT !.clean = FALSE]
           [] r.ev.op.t = "SetHealth" ->
                [o EXCEPT !.hits = 0, !.h0 = r.ev.op.health]
           [] OTHER -> o

\* the observers after an iteration of the loop of step
ObsAfterIter(o, r) == SleepAfterIter(LoopObsAfterIter(o, r), r)

\* the observer of is_second_round: what the host answered, when the
\* iteration executed a shoot_aim whose shoot_aim_param asked for it
SecondAfterIter(o, r, second) ==
    [o EXCEPT !.second = /\ r.ev.act = "exec"
                         /\ r.ev.op.t = "ShootAim"
                         /\ r.ev.shot # NoShot
                         /\ r.it.homing_shot_with_rank
                         /\ second]

\* the observers after damage
ObsAfterDamage(o, s) ==
    IF s.boss THEN [o EXCEPT !.hits = @ + 1]
    ELSE IF s.jump_on_damage # 0
    THEN [o EXCEPT !.clean = FALSE, !.sleep_clean = FALSE]
    ELSE o

\* step entering its loop with do_try_extra_act = true whatever the flag
StepCallAlwaysExtra ==
    /\ tool = "interp"
    /\ call.status \in {"ok", "err"}
    /\ IF it.state # "Alive"
       THEN /\ call' = Call("step", "panic", -1)
            /\ last' = Event("rejected", it.pc, Panic, -1, NoShot)
            /\ UNCHANGED <<it, frame, obs>>
       ELSE IF it.sleep_timer > 0
       THEN /\ it' = [it EXCEPT !.sleep_timer = @ - 1]
            /\ call' = Call("step", "ok", -1)
            /\ last' = Event("sleep", it.pc, Panic, -1, NoShot)
            /\ obs' = [obs EXCEPT !.slept = IF @ < MaxSlept THEN @ + 1 ELSE @]
            /\ UNCHANGED frame
       ELSE /\ call' = Call("step", "running", -1)
            /\ frame' = Frame(TRUE, TRUE, 0, FALSE)
            /\ last' = Event("begin", it.pc, Panic, -1, NoShot)
            /\ UNCHANGED <<it, obs>>
    /\ UNCHANGED toolVars

\* Interpreter::step up to the loop: the assertion, the sleep timer, the
\* two locals
StepCall ==
    /\ tool = "interp"
    /\ call.status \in {"ok", "err"}
    /\ IF it.state # "Alive"
       THEN /\ call' = Call("step", "panic", -1)
            /\ last' = Event("rejected", it.pc, Panic, -1, NoShot)
            /\ UNCHANGED <<it, frame, obs>>
       ELSE IF it.sleep_timer > 0
       THEN /\ it' = [it EXCEPT !.sleep_timer = @ - 1]
            /\ call' = Call("step", "ok", -1)
            /\ last' = Event("sleep", it.pc, Panic, -1, NoShot)
            /\ obs' = [obs EXCEPT !.slept = IF @ < MaxSlept THEN @ + 1 ELSE @]
            /\ UNCHANGED frame
       ELSE /\ call' = Call("step", "running", -1)
            /\ frame' = Frame(TRUE, it.extra_act_with_rank, 0, FALSE)
            /\ last' = Event("begin", it.pc, Panic, -1, NoShot)
            /\ UNCHANGED <<it, obs>>
    /\ UNCHANGED toolVars

\* one iteration of the loop of Interpreter::step
StepIter ==
    /\ tool = "interp"
    /\ call.status = "running"
    /\ \E h \in Observations(obs.overflow_checks) :
         LET r == LoopIter(it, frame.do_try_homing, frame.do_try_extra_act, h)
         IN /\ it' = r.it
            /\ call' = IF r.out = "continue" THEN call
                       ELSE Call("step", r.out,
                                 IF r.out = "err" THEN it.pc ELSE -1)
            /\ frame' = FrameAfterIter(frame, r, h.stage)
            /\ obs' = SecondAfterIter(ObsAfterIter(obs, r), r,
                                      h.is_second_round)
            /\ last' = r.ev
    /\ UNCHANGED toolVars

\* Interpreter::damage
DamageCallUnchecked ==
    /\ tool = "interp"
    /\ call.status \in {"ok", "err"}
    /\ it' = damage(it)
    /\ call' = Call("damage", "ok", -1)
    /\ obs' = ObsAfterDamage(obs, it)
    /\ last' = Event("damage", it.pc, Panic, -1, NoShot)
    /\ UNCHANGED frame
    /\ UNCHANGED toolVars

DamageCall ==
    /\ tool = "interp"
    /\ call.status \in {"ok", "err"}
    /\ IF it.state # "Alive"
       THEN /\ call' = Call("damage", "panic", -1)
            /\ last' = Event("rejected", it.pc, Panic, -1, NoShot)
            /\ UNCHANGED <<it, frame, obs>>
       ELSE /\ it' = damage(it)
            /\ call' = Call("damage", "ok", -1)
            /\ obs' = ObsAfterDamage(obs, it)
            /\ last' = Event("damage", it.pc, Panic, -1, NoShot)
            /\ UNCHANGED frame
    /\ UNCHANGED toolVars

Next == StepCall \/ StepIter \/ DamageCall

Spec == Init /\ [][Next]_vars

\* the start points of the runs checked for termination of the frame
LiveStartPoints == { <<Prog4, 0>>, <<Prog5, 0>>, <<Prog5, 13>> }

InitLive ==
    /\ Init
    /\ <<it.program, it.pc>> \in LiveStartPoints

\* the loop of step runs on once entered: the thread executing the call is
\* never suspended for ever
SpecLive == InitLive /\ [][Next]_vars /\ WF_vars(StepIter)

(***************************************************************************)
(* The runs for the rank gates: every move d with every rank, and a        *)
(* program of shoot_aim with every combination of the five flags and every *)
(* rank.                                                                   *)
(***************************************************************************)
AllRanks == 0..7

\* move 4; shoot_aim 0; shoot_aim 8; set_sleep_timer 1
ShootProg == <<4, 192, 200, 65>>

\* one move d, d in 0..=0x3F, with accel_with_rank set or not
GateMoveConfigs ==
    { [program |-> <<d>>, pc |-> 0, boss |-> FALSE, difficulty |-> 2,
       shot_with_rank |-> FALSE, accel_shot_with_rank |-> FALSE,
       homing_shot_with_rank |-> FALSE, extra_act_with_rank |-> FALSE,
       accel_with_rank |-> a, rank |-> r, x |-> 120, y |-> 100] :
      d \in 0..63, a \in BOOLEAN, r \in AllRanks }

GateShootConfigs ==
    { [program |-> ShootProg, pc |-> 0, boss |-> FALSE, difficulty |-> 2,
       shot_with_rank |-> f[1], accel_shot_with_rank |-> f[2],
       homing_shot_with_rank |-> f[3], extra_act_with_rank |-> f[4],
       accel_with_rank |-> f[5], rank |-> r, x |-> 120, y |-> 100] :
      f \in [1..5 -> BOOLEAN], r \in AllRanks }

InitGate ==
    /\ ToolIdle
    /\ \E cfg \in GateMoveConfigs \cup GateShootConfigs : it = init(cfg)
    /\ call = Call("init", "ok", -1)
    /\ frame = Frame(FALSE, FALSE, 0, FALSE)
    /\ \E checks \in BOOLEAN : obs = [NoObs EXCEPT !.overflow_checks = checks]
    /\ last = NoEvent

SpecGate == InitGate /\ [][Next]_vars

(***************************************************************************)
(* Claims about the interpreter.                                           *)
(***************************************************************************)
\* an iteration of the loop of step is about to run
InFrame == tool = "interp" /\ call.status = "running"

\* a call of step or damage is about to be made
BetweenCalls == tool = "interp" /\ call.status \in {"ok", "err"}

\* C4, as claimed: every call of step that enters its loop returns after
\* finitely many iterations.
C4_FrameTerminates == InFrame ~> ~InFrame

\* C4, amended: a frame in which no jump, branch or loop_end has transferred
\* control to its own address or before it runs at most len(program) + 2
\* iterations of the loop.
C4_ForwardFrameBound ==
    (tool = "interp" /\ ~frame.back) => frame.iters <= Len(it.program) + 2

\* a frame without a backward transfer that ran several iterations and
\* returned
C4_Witness ==
    /\ tool = "interp"
    /\ call = Call("step", "ok", -1)
    /\ ~frame.back
    /\ frame.iters >= 4

C5_Step ==
    /\ call.name = "init" => it.state = "Alive"
    /\ it'.state # it.state =>
          /\ it.state = "Alive"
          /\ \/ it'.state = "Leaving" /\ call'.name = "step"
             \/ it'.state = "Dying" /\ call'.name = "damage"
    /\ (BetweenCalls /\ call'.status # "panic") => it.state = "Alive"

\* C5: the state is Alive after init; the only changes of state are Alive
\* to Leaving, made by step, and Alive to Dying, made by damage; and a call
\* of step or damage is accepted only in state Alive.
C5_Lifecycle == [][C5_Step]_vars

\* step has returned with the enemy off the screen
C5_Witness ==
    /\ tool = "interp"
    /\ it.state = "Leaving"
    /\ call = Call("step", "ok", -1)
    /\ last.act = "exec"
    /\ last.op.t = "Move"

\* C6: when a loop_begin n .. loop_end whose body was run with no taken
\* jump or branch and no damage redirect falls through its loop_end, the
\* loop_end was executed n times (256 times for n = 0), and pc is the
\* address after the loop_end.
C6_LoopCount ==
    (tool = "interp" /\ obs.done) =>
        /\ obs.body_count = IF obs.loop_n = 0 THEN 256 ELSE obs.loop_n
        /\ (last.act = "exec" /\ last.op.t = "LoopEnd") => it.pc = last.at + 1

\* loop_begin 0 has fallen through its loop_end
C6_Witness ==
    /\ tool = "interp"
    /\ obs.done
    /\ obs.loop_n = 0
    /\ last.act = "exec"
    /\ last.op.t = "LoopEnd"

\* C7, as claimed: loop_counter is never 1.
C7_NeverOne == tool = "interp" => it.loop_counter # 1

C7_Step ==
    /\ (InFrame /\ last'.act = "exec" /\ last'.op.t = "LoopBegin") =>
          it'.loop_counter \in {0} \cup 2..15
    /\ (it'.loop_counter = 1 /\ it.loop_counter # 1) =>
          /\ InFrame
          /\ last'.act = "exec"
          /\ last'.op.t = "LoopEnd"
          /\ it.loop_counter = 2

\* C7, amended: loop_begin never loads 1 into loop_counter; the counter
\* becomes 1 only when loop_end decrements it from 2.
C7_OneOnlyFromTwo == [][C7_Step]_vars

\* loop_end has left 1 in the counter and gone back to the loop start
C7_Witness ==
    /\ tool = "interp"
    /\ it.loop_counter = 1
    /\ last.act = "exec"
    /\ last.op.t = "LoopEnd"
    /\ it.pc = it.loop_start_addr

\* the iteration made in this step executed the bytes 0xA1 v
ExecutesA1 ==
    /\ InFrame
    /\ last'.act = "exec"
    /\ it.program[last'.at + 1] = 161

C8_Step ==
    /\ it'.boss => it'.jump_on_damage = 0
    /\ ~it'.boss => it'.health = 0
    /\ ExecutesA1 =>
          LET v == it.program[last'.at + 2] IN
          /\ call' = Call("step", "ok", -1)
          /\ ~it.boss => it' = [it EXCEPT !.pc = last'.at + 2,
                                          !.jump_on_damage = v]
          /\ it.boss => it' = [it EXCEPT !.pc = last'.at + 2, !.health = v]

\* C8: the bytes 0xA1 v set jump_on_damage of a minion and health of a
\* boss to v, change nothing else but pc, and end the frame without a
\* failed assertion; a boss's jump_on_damage and a minion's health stay 0.
C8_OverloadedA1 == [][C8_Step]_vars

\* a boss has executed 0xA1 2
C8_Witness ==
    /\ tool = "interp"
    /\ it.boss
    /\ it.health = 2
    /\ it.jump_on_damage = 0
    /\ last.act = "exec"
    /\ last.op.t = "SetHealth"
    /\ call = Call("step", "ok", -1)

C9_Step ==
    /\ (BetweenCalls /\ it.state = "Alive" /\ last'.act = "damage") =>
          /\ call' = Call("damage", "ok", -1)
          /\ (it.boss /\ it.health = 0) => it' = [it EXCEPT !.state = "Dying"]
          /\ (it.boss /\ it.health > 0) => it' = [it EXCEPT !.health = @ - 1]
          /\ (~it.boss /\ it.jump_on_damage = 0) =>
                it' = [it EXCEPT !.state = "Dying"]
          /\ (~it.boss /\ it.jump_on_damage # 0) =>
                it' = [it EXCEPT !.pc = it.jump_on_damage]
    /\ (it'.boss /\ it'.state = "Dying") => obs'.hits = obs'.h0 + 1
    /\ (it'.boss /\ it'.state # "Dying") => obs'.hits + it'.health = obs'.h0

\* C9: damage on an Alive boss with health 0 gives Dying, with health > 0
\* decrements health; on an Alive minion with jump_on_damage 0 gives Dying,
\* otherwise sets pc to jump_on_damage; it changes nothing else and returns
\* normally; a boss whose health was set to h is Dying after exactly h + 1
\* calls of damage.
C9_Damage == [][C9_Step]_vars

\* a boss with health set to 2 is killed by the third damage
C9_Witness ==
    /\ tool = "interp"
    /\ it.boss
    /\ it.state = "Dying"
    /\ obs.h0 = 2
    /\ obs.hits = 3
    /\ last.act = "damage"

\* C15: a call of step made in state Alive returns ok or a Decode error
\* (or is still in its loop); the error carries the pc at which decoding
\* failed and pc still stands at that instruction.
C15_StepOutcomes ==
    (tool = "interp" /\ call.name = "step" /\ last.act # "rejected") =>
        /\ call.status \in {"running", "ok", "err"}
        /\ call.status = "err" =>
              /\ call.addr = it.pc
              /\ it.pc < Len(it.program)
              /\ ~decode(SubSeqFrom(it.program, it.pc)).ok

\* a call of step is made in this step
StepCalled == BetweenCalls /\ call'.name = "step"

C18_Step ==
    /\ (StepCalled /\ it.state = "Alive" /\ it.sleep_timer > 0) =>
          /\ it' = [it EXCEPT !.sleep_timer = @ - 1]
          /\ call' = Call("step", "ok", -1)
          /\ last'.act = "sleep"
          /\ last'.shot = NoShot
          /\ frame' = frame
    /\ (InFrame /\ last'.act = "exec" /\ last'.op.t = "SetSleepTimer") =>
          /\ it' = [it EXCEPT !.pc = last'.at + 1,
                              !.sleep_timer = 4 * last'.op.idx]
          /\ call' = Call("step", "ok", -1)
    /\ (StepCalled /\ it.state = "Alive" /\ obs.sleep_n > 0) =>
          /\ obs.slept < 4 * obs.sleep_n => last'.act = "sleep"
          /\ obs.slept >= 4 * obs.sleep_n => last'.act = "begin"
    /\ (InFrame /\ obs.sleep_n > 0) =>
          /\ obs.slept = 4 * obs.sleep_n
          /\ last'.act \in {"fetch", "exec"}
          /\ obs.sleep_clean => last'.at = obs.sleep_next

\* C18: a call of step with sleep_timer > 0 decrements sleep_timer and does
\* nothing else, without a fetch or a host call; set_sleep_timer n ends the
\* frame with sleep_timer = 4 * n; the next 4 * n calls of step fetch no
\* instruction, and the call after them fetches first, at the address
\* after the set_sleep_timer unless damage redirected pc meanwhile.
C18_Sleep == [][C18_Step]_vars

\* after set_sleep_timer 2 and eight frames slept, step is about to fetch
\* the instruction after the set_sleep_timer
C18_Witness ==
    /\ tool = "interp"
    /\ call.status = "running"
    /\ last.act = "begin"
    /\ obs.sleep_n = 2
    /\ obs.slept = 8
    /\ obs.sleep_clean
    /\ it.pc = obs.sleep_next
    /\ it.program[it.pc] = 66

\* the step made is an iteration that applied a move or a homing
\* displacement
DisplacedNow ==
    /\ InFrame
    /\ call'.status # "panic"
    /\ \/ last'.act = "homing"
       \/ last'.act = "exec" /\ last'.op.t = "Move"

C19_Step ==
    /\ (DisplacedNow /\ it'.y >= CLIP_Y_MIN) =>
          /\ it'.state = "Leaving"
          /\ call' = Call("step", "ok", -1)
          /\ frame'.reacts = frame.reacts
    /\ (InFrame /\ last'.act = "exec"
        /\ last'.op.t \in {"SetPosition", "RandomizeY"}) =>
          /\ it'.state = it.state
          /\ call'.status = "running"

\* C19: a move or homing displacement that leaves y >= 239, by moving down
\* or by wrapping around below 0, ends the call of step with state Leaving
\* and without a re-action, whatever the flags, the stage and the rank;
\* set_position and randomize_y never change the state.
C19_ClipOffScreen == [][C19_Step]_vars

\* a move upwards from y = 2 wrapped around to y >= 252 and the enemy is
\* Leaving although extra_act_with_rank, stage >= difficulty and rank >= 4
\* held at the clip
C19_Witness ==
    /\ tool = "interp"
    /\ last.act = "exec"
    /\ last.op.t = "Move"
    /\ it.inv_y
    /\ it.y >= 252
    /\ it.state = "Leaving"
    /\ call = Call("step", "ok", -1)
    /\ it.extra_act_with_rank
    /\ frame.do_try_extra_act
    /\ frame.stage >= it.difficulty
    /\ it.rank >= 4

\* clip answers true in the step made
ReactedNow == InFrame /\ frame'.reacts > frame.reacts

C20_Step ==
    /\ ReactedNow =>
          /\ frame.reacts = 0
          /\ it.extra_act_with_rank
          /\ frame'.stage >= it.difficulty
          /\ it.rank >= 4
    /\ frame'.reacts <= 1
    /\ frame'.disps <= 2
    /\ (DisplacedNow /\ ~it.extra_act_with_rank) =>
          /\ frame'.disps = 1
          /\ call' = Call("step", "ok", -1)

\* C20: in one call of step clip answers re-act at most once, and only
\* when extra_act_with_rank, stage >= difficulty and rank >= 4 hold; a call
\* applies at most two move or homing displacements, and when
\* extra_act_with_rank is false the first displacement is the only one and
\* the call returns after it.
C20_ReactOnce == [][C20_Step]_vars

\* a call of step applied two move displacements, with one re-action
\* between them, and returned
C20_Witness ==
    /\ tool = "interp"
    /\ call = Call("step", "ok", -1)
    /\ frame.disps = 2
    /\ frame.reacts = 1
    /\ frame.homings = 0
    /\ last.act = "exec"
    /\ last.op.t = "Move"

\* C17: within one call of step the homing action (decrement homing_timer,
\* displace towards the hero) runs at most once since the frame began or
\* since a set_homing_timer of that frame re-armed it, also when clip
\* signals a re-action after the homing displacement.
C17_HomingOnce == tool = "interp" => frame.homings <= 1

\* the iteration made in this step executed a shoot_aim
ShootAimNow == InFrame /\ last'.act = "exec" /\ last'.op.t = "ShootAim"

\* (rank << 3) & 0x30 for a rank in 0..=7
RankSpeedMask(rank) == 16 * (rank \div 2)

C21_Step ==
    ShootAimNow =>
        /\ it' = [it EXCEPT !.pc = last'.at + 1]
        /\ call'.status = "running"
        /\ (it.shot_with_rank /\ it.rank < 4) => last'.shot = NoShot
        /\ ~(it.shot_with_rank /\ it.rank < 4) =>
              /\ last'.shot =
                    IF it.homing_shot_with_rank /\ obs'.second /\ it.rank = 7
                    THEN <<it.x, it.y, 0, TRUE>>
                    ELSE IF it.accel_shot_with_rank
                    THEN <<it.x, it.y, RankSpeedMask(it.rank), FALSE>>
                    ELSE <<it.x, it.y, 0, FALSE>>
              /\ last'.shot[3] \in {0, 16, 32, 48}

\* C21: shoot_aim makes no try_shoot_aim call when shot_with_rank and
\* rank < 4; otherwise it makes one call with the enemy's x and y and with
\* (0, true) when homing_shot_with_rank, is_second_round and rank = 7,
\* else ((rank << 3) & 0x30, false) when accel_shot_with_rank, else
\* (0, false); it changes no field but pc and the frame goes on.
C21_ShootAim == [][C21_Step]_vars

\* shoot_aim at rank 6 with accel_shot_with_rank and shot_with_rank, after
\* a move: one call with the moved position and speed_mask 0x30, and the
\* frame goes on
C21_Witness ==
    /\ tool = "interp"
    /\ last.act = "exec"
    /\ last.op.t = "ShootAim"
    /\ it.shot_with_rank
    /\ it.accel_shot_with_rank
    /\ it.rank = 6
    /\ it.y = 104
    /\ last.shot = <<it.x, 104, 48, FALSE>>
    /\ call.status = "running"

\* the iteration made in this step executed a move
MoveNow == InFrame /\ last'.act = "exec" /\ last'.op.t = "Move"

C22_Step ==
    MoveNow =>
        LET d == last'.op.dir
            gate == /\ d <= 31
                    /\ it.accel_with_rank
                    /\ frame'.stage >= it.difficulty
        IN
        /\ call'.status # "panic"
        /\ last'.dir \in 0..63
        /\ last'.dir = IF gate /\ it.rank \in 4..6 THEN d + 16
                       ELSE IF gate /\ it.rank = 7 THEN d + 32
                       ELSE d

\* C22: the direction a move d goes in is d + 0x10 when d <= 0x1F,
\* accel_with_rank, stage >= difficulty and rank in 4..=6, d + 0x20 when
\* d <= 0x1F, accel_with_rank, stage >= difficulty and rank = 7, and d
\* otherwise; it is within 0..=0x3F for every d and rank, so the assertion
\* of Direction::new does not fail in step.
C22_MoveSpeed == [][C22_Step]_vars

\* move 0x1F at rank 7 went in direction 0x3F
C22_Witness ==
    /\ tool = "interp"
    /\ last.act = "exec"
    /\ last.op.t = "Move"
    /\ last.op.dir = 31
    /\ last.dir = 63
    /\ it.rank = 7
    /\ frame.stage >= it.difficulty
    /\ call = Call("step", "ok", -1)

\* the iteration made in this step executed an increment_sprite or a
\* decrement_sprite
SpriteStepNow ==
    /\ InFrame
    /\ last'.act = "exec"
    /\ last'.op.t \in {"IncrementSprite", "DecrementSprite"}

C23_Step ==
    SpriteStepNow =>
        /\ call'.status = "running"
        /\ last'.op.t = "IncrementSprite" =>
              it'.sprite_idx = (it.sprite_idx + 1) % 256
        /\ last'.op.t = "DecrementSprite" =>
              it'.sprite_idx = (it.sprite_idx + 255) % 256

\* C23: increment_sprite and decrement_sprite wrap at 8 bits (255 + 1 = 0,
\* 0 - 1 = 255) and never abort the step.
C23_SpriteWraps == [][C23_Step]_vars

====
